---- MODULE Spec2Model ----
(***************************************************************************)
(* Asynchronous job lifecycle of the video compressor API server           *)
(* (api_server.py): the job registry active_jobs, the process registry     *)
(* active_processes, the runner thread process_video_async, the cancel     *)
(* endpoint cancel_job, the status endpoint and the janitor                *)
(* clean_old_jobs.  Every acquisition of job_lock or process_lock is one   *)
(* atomic step; computation that touches only the thread's own locals and  *)
(* files is folded into the neighbouring step.                             *)
(***************************************************************************)
EXTENDS Integers, FiniteSets, Sequences, TLC

\* ------------------------------------------------------------------ bounds
\* Job ids handed out by uuid4 in compress_video_api, and ids a client may name.
JobIds == {"j1", "j2"}
\* The /api/cancel requests of a run, each served by its own request thread.
Cancellers == {"c1"}
\* How often the wall clock is advanced.
MaxTicks == 1
\* The largest file size (MB) the figures are computed for.
MaxSize == 10

\* ------------------------------------------------- constants of the program
Retention == 3600
NoProgress == -1
TickSteps == {Retention, Retention + 1}
\* File sizes (MB) get_video_info may report for the input and the output.
InputSizes == {100}
OutputSizes == {10}

Terminal == {"completed", "failed", "cancelled"}
NonTerminal == {"queued", "processing"}

NoMsg == "none"
CancelMsg == "Job cancelled by user"
FFmpegMsg == "FFmpeg error: stderr"
ExcMsg == "str(e)"
CompleteMsg == "Compression complete"

VARIABLES
    active_jobs,       \* job registry: job id -> record (a dict keyed by id)
    active_processes,  \* process registry: set of job ids holding a handle
    pc,                \* position of each job's process_video_async thread
    rlocal,            \* locals of each runner: original_size, returncode
    outfile,           \* whether the job's output artifact exists on disk
    signalled,         \* whether a termination signal was sent to the job's encoder
    cpc,               \* position of each cancel_job request thread
    cjob,              \* job id each cancel request names
    csaw,              \* the status each cancel request read at line 337
    clookup,           \* what cancel_process did for each cancel request
    ccode,             \* the HTTP status each cancel request was answered with
    now,               \* time.time()
    reader,            \* what a reader thread got from get_job_status or list_jobs
    fig                \* sizes and figures of one computation of the compression figures

vars == <<active_jobs, active_processes, pc, rlocal, outfile, signalled,
          cpc, cjob, csaw, clookup, ccode, now, reader, fig>>

\* --------------------------------------------------------------- job registry
NoResult == [has_result |-> FALSE, original_size |-> 0, compressed_size |-> 0,
             compression_ratio |-> 0, compression_percent |-> 0]

\* A fresh dict: active_jobs[job_id] = {}
EmptyRecord == [status |-> "none", updated_at |-> 0, progress |-> NoProgress,
                message |-> NoMsg, result |-> NoResult]

\* Mutation of get_job_status: the default for a missing id is a record that
\* reads 'queued' instead of the empty dict.
get_job_status_default(jobs, j) ==
    IF j \in DOMAIN jobs THEN jobs[j] ELSE [EmptyRecord EXCEPT !.status = "queued"]

\* get_job_status: active_jobs.get(job_id, {})
get_job_status(jobs, j) == IF j \in DOMAIN jobs THEN jobs[j] ELSE EmptyRecord

\* update_job_status: create the record if missing, then merge status,
\* updated_at and the keyword arguments; keys not passed keep their value.
\* kw is a record holding the keyword arguments that were passed.
Merge(rec, kw) ==
    [k \in DOMAIN rec |-> IF k \in DOMAIN kw THEN kw[k] ELSE rec[k]]

update_job_status(jobs, j, status, t, kw) ==
    LET base == IF j \in DOMAIN jobs THEN jobs[j] ELSE EmptyRecord
        rec  == Merge(Merge(base, [status |-> status, updated_at |-> t]), kw)
    IN  [i \in (DOMAIN jobs) \cup {j} |-> IF i = j THEN rec ELSE jobs[i]]

NoKw == [x \in {} |-> 0]

\* Mutation of Expired: the status of the record is not looked at.
ExpiredAnyStatus(rec, t) == t - rec.updated_at > Retention

\* clean_old_jobs: drop terminal records older than the retention window.
Expired(rec, t) == rec.status \in Terminal /\ t - rec.updated_at > Retention

clean_old_jobs(jobs, t) ==
    [i \in {k \in DOMAIN jobs : ~Expired(jobs[k], t)} |-> jobs[i]]

\* ------------------------------------------------------------ process registry
register_process(procs, j) == procs \cup {j}

\* Mutation of unregister_process: the registry is cleared.
unregister_process_clear(procs, j) == {}

unregister_process(procs, j) == procs \ {j}

\* ------------------------------------------------------------------- figures
\* The outcome of a division by zero: Python raises ZeroDivisionError and no
\* figure is produced.
ZeroDivisionError == -1000000

\* a / b on sizes: the quotient in whole units; by zero it raises.
truediv(a, b) == IF b = 0 THEN ZeroDivisionError ELSE a \div b

\* Mutation of compression_percent: the guard on original_size is missing.
compression_percent_unguarded(o, c) == truediv((o - c) * 100, o)

\* line 199: original_size / compressed_size if compressed_size > 0 else 0
compression_ratio(o, c) == IF c > 0 THEN truediv(o, c) ELSE 0
\* line 200: ((original_size - compressed_size) / original_size) * 100
\*           if original_size > 0 else 0
compression_percent(o, c) == IF o > 0 THEN truediv((o - c) * 100, o) ELSE 0

\* ---------------------------------------------------------------------- Init
\* raised: the call whose exception the handler at line 214 is handling.
NoLocals == [original_size |-> 0, returncode |-> 0, raised |-> "none"]

\* No reader holds anything: seen maps the ids of the records a reader got to
\* their content when it got them; frozen holds the content of those that
\* were deleted from the registry since (the reader still holds the dict).
NoReader == [state |-> "idle", seen |-> [x \in {} |-> EmptyRecord],
             frozen |-> [x \in {} |-> EmptyRecord]]

\* No computation of the figures is under way.
NoFig == [state |-> "none", original_size |-> 0, compressed_size |-> 0,
          ratio |-> 0, percent |-> 0]

Init ==
    /\ active_jobs = [x \in {} |-> EmptyRecord]
    /\ active_processes = {}
    /\ pc = [j \in JobIds |-> "none"]
    /\ rlocal = [j \in JobIds |-> NoLocals]
    /\ outfile = [j \in JobIds |-> FALSE]
    /\ signalled = [j \in JobIds |-> FALSE]
    /\ cpc = [c \in Cancellers |-> "idle"]
    /\ cjob = [c \in Cancellers |-> "none"]
    /\ csaw = [c \in Cancellers |-> "none"]
    /\ clookup = [c \in Cancellers |-> "none"]
    /\ ccode = [c \in Cancellers |-> 0]
    /\ now = 0
    /\ reader = NoReader
    /\ fig = NoFig

\* ---------------------------------------------------------------- submission
\* Mutation of Submit: the runner thread is started and the record is left
\* for the runner to create.
SubmitThreadOnly(j) ==
    /\ pc[j] = "none"
    /\ j \notin DOMAIN active_jobs
    /\ pc' = [pc EXCEPT ![j] = "start"]
    /\ UNCHANGED <<active_jobs, active_processes, rlocal, outfile, signalled, cpc, cjob, csaw, clookup, ccode, now, reader, fig>>

\* compress_video_api, lines 260-308: a fresh uuid, the record is created
\* 'queued', the runner thread is started, the id is returned.
Submit(j) ==
    /\ pc[j] = "none"
    /\ j \notin DOMAIN active_jobs
    /\ active_jobs' = update_job_status(active_jobs, j, "queued", now, NoKw)
    /\ pc' = [pc EXCEPT ![j] = "start"]
    /\ UNCHANGED <<active_processes, rlocal, outfile, signalled, cpc, cjob, csaw, clookup, ccode, now, reader, fig>>

\* ------------------------------------------------- runner: process_video_async
\* line 119: update_job_status(job_id, 'processing', progress=0)
RunnerStart(j) ==
    /\ pc[j] = "start"
    /\ active_jobs' = update_job_status(active_jobs, j, "processing", now, [progress |-> 0])
    /\ pc' = [pc EXCEPT ![j] = "probe"]
    /\ UNCHANGED <<active_processes, rlocal, outfile, signalled, cpc, cjob, csaw, clookup, ccode, now, reader, fig>>

\* lines 122-130: original_info = get_video_info(input_path) returns the size
\* of the input file, then update_job_status(job_id, 'processing',
\* progress=10, original_info=...).
RunnerProbe(j) ==
    /\ pc[j] = "probe"
    /\ \E s \in InputSizes : rlocal' = [rlocal EXCEPT ![j].original_size = s]
    /\ active_jobs' = update_job_status(active_jobs, j, "processing", now, [progress |-> 10])
    /\ pc' = [pc EXCEPT ![j] = "popen"]
    /\ UNCHANGED <<active_processes, outfile, signalled, cpc, cjob, csaw, clookup, ccode, now, reader, fig>>

\* lines 133-170: the command is built and subprocess.Popen spawns the encoder.
RunnerPopen(j) ==
    /\ pc[j] = "popen"
    /\ pc' = [pc EXCEPT ![j] = "register"]
    /\ UNCHANGED <<active_jobs, active_processes, rlocal, outfile, signalled, cpc, cjob, csaw, clookup, ccode, now, reader, fig>>

\* line 173: register_process(job_id, process)
RunnerRegister(j) ==
    /\ pc[j] = "register"
    /\ active_processes' = register_process(active_processes, j)
    /\ pc' = [pc EXCEPT ![j] = "communicate"]
    /\ UNCHANGED <<active_jobs, rlocal, outfile, signalled, cpc, cjob, csaw, clookup, ccode, now, reader, fig>>

\* line 176: process.communicate() returns once the encoder has exited, with
\* any return code; a successful encoder has written the output file, a failed
\* or killed one may have left a partial file.
RunnerCommunicate(j) ==
    /\ pc[j] = "communicate"
    /\ \E rc \in {0, 1}, out \in BOOLEAN :
          /\ rc = 0 => out
          /\ rlocal' = [rlocal EXCEPT ![j].returncode = rc]
          /\ outfile' = [outfile EXCEPT ![j] = out]
    /\ pc' = [pc EXCEPT ![j] = "unregister"]
    /\ UNCHANGED <<active_jobs, active_processes, signalled, cpc, cjob, csaw, clookup, ccode, now, reader, fig>>

\* line 179: unregister_process(job_id)
RunnerUnregister(j) ==
    /\ pc[j] = "unregister"
    /\ active_processes' = unregister_process(active_processes, j)
    /\ pc' = [pc EXCEPT ![j] = "reread"]
    /\ UNCHANGED <<active_jobs, rlocal, outfile, signalled, cpc, cjob, csaw, clookup, ccode, now, reader, fig>>

\* Mutation of RereadBranch: the status read is not looked at.
RereadBranchIgnoreCancelled(status, returncode) ==
    IF returncode # 0 THEN "fail" ELSE "complete"

\* Mutation of RereadBranch: the encoder's return code is not looked at.
RereadBranchIgnoreReturncode(status, returncode) ==
    IF status = "cancelled" THEN "done" ELSE "complete"

\* lines 182-194: where the runner goes after re-reading the job's status:
\* it returns ("done"), reports the encoder's failure, or goes on to complete.
RereadBranch(status, returncode) ==
    IF status = "cancelled" THEN "done"
    ELSE IF returncode # 0 THEN "fail"
    ELSE "complete"

\* lines 182-190: job_status = get_job_status(job_id); if its status reads
\* 'cancelled' the output file is removed when it exists (a removal that
\* raises is swallowed and leaves the file behind) and the runner returns.
RunnerReread(j) ==
    LET branch == RereadBranch(get_job_status(active_jobs, j).status, rlocal[j].returncode)
    IN  /\ pc[j] = "reread"
        /\ pc' = [pc EXCEPT ![j] = branch]
        /\ IF branch = "done"
             THEN /\ \E removed \in BOOLEAN :
                        outfile' = [outfile EXCEPT ![j] = outfile[j] /\ ~removed]
                  /\ rlocal' = [rlocal EXCEPT ![j] = NoLocals]
             ELSE UNCHANGED <<outfile, rlocal>>
        /\ UNCHANGED <<active_jobs, active_processes, signalled, cpc, cjob, csaw, clookup, ccode, now, reader, fig>>

\* lines 192-194: update_job_status(job_id, 'failed', message=f"FFmpeg error: {stderr}")
RunnerFail(j) ==
    /\ pc[j] = "fail"
    /\ active_jobs' = update_job_status(active_jobs, j, "failed", now, [message |-> FFmpegMsg])
    /\ pc' = [pc EXCEPT ![j] = "done"]
    /\ rlocal' = [rlocal EXCEPT ![j] = NoLocals]
    /\ UNCHANGED <<active_processes, outfile, signalled, cpc, cjob, csaw, clookup, ccode, now, reader, fig>>

\* lines 199-212: the keyword arguments written with status 'completed'.
CompletedFields(o, c) ==
    [progress |-> 100, message |-> CompleteMsg,
     result |-> [has_result |-> TRUE, original_size |-> o, compressed_size |-> c,
                 compression_ratio |-> compression_ratio(o, c),
                 compression_percent |-> compression_percent(o, c)]]

\* lines 197-212: get_video_info(output_path) returns the size of the output
\* file (os.path.getsize needs it to exist), the figures are computed and
\* written with status 'completed'.
RunnerComplete(j) ==
    /\ pc[j] = "complete"
    /\ outfile[j]
    /\ \E s \in OutputSizes :
          active_jobs' = update_job_status(active_jobs, j, "completed", now,
                             CompletedFields(rlocal[j].original_size, s))
    /\ pc' = [pc EXCEPT ![j] = "done"]
    /\ rlocal' = [rlocal EXCEPT ![j] = NoLocals]
    /\ UNCHANGED <<active_processes, outfile, signalled, cpc, cjob, csaw, clookup, ccode, now, reader, fig>>

\* The calls inside the try block that can raise: get_video_info (line 122 and
\* line 197: subprocess.run, os.path.getsize), subprocess.Popen (line 161) and
\* process.communicate (line 176).  Control goes to the handler at line 214.
RaisingSteps == {"probe", "popen", "communicate", "complete"}

\* The call made at each of these positions.
RaisingCall(step) ==
    IF step \in {"probe", "complete"} THEN "get_video_info"
    ELSE IF step = "popen" THEN "Popen"
    ELSE "communicate"

RunnerRaise(j) ==
    /\ pc[j] \in RaisingSteps
    /\ pc' = [pc EXCEPT ![j] = "exc"]
    /\ rlocal' = [rlocal EXCEPT ![j] = [NoLocals EXCEPT !.raised = RaisingCall(pc[j])]]
    /\ IF pc[j] = "communicate"
         THEN \E out \in BOOLEAN : outfile' = [outfile EXCEPT ![j] = out]
         ELSE UNCHANGED outfile
    /\ UNCHANGED <<active_jobs, active_processes, signalled, cpc, cjob, csaw, clookup, ccode, now, reader, fig>>

\* Mutation of RunnerExc: the handler logs the exception and does not update
\* the record.
RunnerExcLogOnly(j) ==
    /\ pc[j] = "exc"
    /\ pc' = [pc EXCEPT ![j] = "exc_unreg"]
    /\ UNCHANGED <<active_jobs, active_processes, rlocal, outfile, signalled, cpc, cjob, csaw, clookup, ccode, now, reader, fig>>

\* line 216: update_job_status(job_id, 'failed', message=str(e))
RunnerExc(j) ==
    /\ pc[j] = "exc"
    /\ active_jobs' = update_job_status(active_jobs, j, "failed", now, [message |-> ExcMsg])
    /\ pc' = [pc EXCEPT ![j] = "exc_unreg"]
    /\ UNCHANGED <<active_processes, rlocal, outfile, signalled, cpc, cjob, csaw, clookup, ccode, now, reader, fig>>

\* Mutation of RunnerExcUnregister: the handler returns without unregistering.
RunnerExcReturn(j) ==
    /\ pc[j] = "exc_unreg"
    /\ pc' = [pc EXCEPT ![j] = "done"]
    /\ rlocal' = [rlocal EXCEPT ![j] = NoLocals]
    /\ UNCHANGED <<active_jobs, active_processes, outfile, signalled, cpc, cjob, csaw, clookup, ccode, now, reader, fig>>

\* line 219: unregister_process(job_id)
RunnerExcUnregister(j) ==
    /\ pc[j] = "exc_unreg"
    /\ active_processes' = unregister_process(active_processes, j)
    /\ pc' = [pc EXCEPT ![j] = "done"]
    /\ rlocal' = [rlocal EXCEPT ![j] = NoLocals]
    /\ UNCHANGED <<active_jobs, outfile, signalled, cpc, cjob, csaw, clookup, ccode, now, reader, fig>>

Runner(j) ==
    \/ RunnerStart(j)
    \/ RunnerProbe(j)
    \/ RunnerPopen(j)
    \/ RunnerRegister(j)
    \/ RunnerCommunicate(j)
    \/ RunnerUnregister(j)
    \/ RunnerReread(j)
    \/ RunnerFail(j)
    \/ RunnerComplete(j)
    \/ RunnerRaise(j)
    \/ RunnerExc(j)
    \/ RunnerExcUnregister(j)

\* ------------------------------------------------------- cancel: cancel_job
\* Mutation of CancelAllowed: only a completed job is refused.
CancelAllowedUnlessCompleted(status) == status # "completed"

\* line 337: the statuses a cancel is accepted for.
CancelAllowed(status) == status \in {"queued", "processing"}

\* lines 315 and 331: `if not job`, job being what get_job_status returned;
\* an empty dict is falsy.
JobFound(jobs, j) == get_job_status(jobs, j) # EmptyRecord

\* lines 329-341: the answer of cancel_job when it ends before cancelling:
\* 404 for an unknown id, 400 for a status that is neither 'queued' nor
\* 'processing'; 0 when it goes on to cancel.
cancel_job_check(jobs, j) ==
    IF ~JobFound(jobs, j) THEN 404
    ELSE IF ~CancelAllowed(get_job_status(jobs, j).status) THEN 400
    ELSE 0

\* lines 329-341: the record is fetched and checked; the request ends here
\* with 404 or 400, or goes on.  (An unknown id reads as status "none".)
CancelGet(c, j) ==
    /\ cpc[c] = "idle"
    /\ cjob' = [cjob EXCEPT ![c] = j]
    /\ csaw' = [csaw EXCEPT ![c] = get_job_status(active_jobs, j).status]
    /\ ccode' = [ccode EXCEPT ![c] = cancel_job_check(active_jobs, j)]
    /\ cpc' = [cpc EXCEPT ![c] = IF cancel_job_check(active_jobs, j) # 0 THEN "done" ELSE "kill"]
    /\ UNCHANGED <<active_jobs, active_processes, pc, rlocal, outfile, signalled,
                   clookup, now, reader, fig>>

\* The encoder of job j can still be signalled: it was spawned and has not
\* been reaped by communicate() (after that os.getpgid raises).
Signallable(j) == pc[j] \in {"communicate", "exc", "exc_unreg"}

\* The runner of job j has not reached register_process yet.
BeforeRegister(j) == pc[j] \in {"start", "probe", "popen", "register"}

\* lines 97-114 (called at line 344): cancel_process looks the handle up; with
\* a handle it signals the process group and returns True, or the signalling
\* raises and it returns False; without a handle it returns False.  The value
\* it returns is not used by cancel_job.
CancelProcess(c) ==
    /\ cpc[c] = "kill"
    /\ IF cjob[c] \in active_processes
         THEN \E ok \in BOOLEAN :
                 /\ ok => Signallable(cjob[c])
                 /\ clookup' = [clookup EXCEPT ![c] = IF ok THEN "signalled" ELSE "signal_failed"]
                 /\ signalled' = [signalled EXCEPT ![cjob[c]] = signalled[cjob[c]] \/ ok]
         ELSE /\ clookup' = [clookup EXCEPT ![c] =
                               IF BeforeRegister(cjob[c]) THEN "no_handle_yet" ELSE "no_handle"]
              /\ UNCHANGED signalled
    /\ cpc' = [cpc EXCEPT ![c] = "update"]
    /\ UNCHANGED <<active_jobs, active_processes, pc, rlocal, outfile, cjob, csaw, ccode, now, reader, fig>>

\* Mutation of cancel_update: the record is updated only when cancel_process
\* returned True.
cancel_update_if_killed(jobs, j, lookup, t) ==
    IF lookup = "signalled"
      THEN update_job_status(jobs, j, "cancelled", t, [message |-> CancelMsg])
      ELSE jobs

\* line 347: update_job_status(job_id, 'cancelled', message='Job cancelled by
\* user'), whatever cancel_process did.
cancel_update(jobs, j, lookup, t) ==
    update_job_status(jobs, j, "cancelled", t, [message |-> CancelMsg])

\* lines 347-352: the record is updated and the request answers success.
CancelUpdate(c) ==
    /\ cpc[c] = "update"
    /\ active_jobs' = cancel_update(active_jobs, cjob[c], clookup[c], now)
    /\ ccode' = [ccode EXCEPT ![c] = 200]
    /\ cpc' = [cpc EXCEPT ![c] = "done"]
    /\ UNCHANGED <<active_processes, pc, rlocal, outfile, signalled, cjob, csaw, clookup, now, reader, fig>>

Cancel(c) ==
    \/ \E j \in JobIds : CancelGet(c, j)
    \/ CancelProcess(c)
    \/ CancelUpdate(c)

\* ------------------------------------------------ status: get_job_status_api
\* lines 311-324: the answer is 404 for an id without a record, 200 with the
\* record otherwise.
status_code(jobs, j) == IF JobFound(jobs, j) THEN 200 ELSE 404

StatusQuery(j) ==
    /\ status_code(active_jobs, j) \in {200, 404}
    /\ UNCHANGED vars

\* ------------------------------------------------------------------- janitor
\* lines 77-84, called by list_jobs at line 386.
\* The dicts a reader holds that the deletion removes from the registry keep
\* the content they had: no later update reaches them.
Detach(rd, jobs, jobs2) ==
    [rd EXCEPT !.frozen =
        [i \in (DOMAIN rd.frozen) \cup ((DOMAIN rd.seen) \ (DOMAIN jobs2)) |->
            IF i \in DOMAIN rd.frozen THEN rd.frozen[i] ELSE jobs[i]]]

Janitor ==
    /\ active_jobs' = clean_old_jobs(active_jobs, now)
    /\ reader' = Detach(reader, active_jobs, active_jobs')
    /\ UNCHANGED <<active_processes, pc, rlocal, outfile, signalled, cpc, cjob, csaw, clookup, ccode, now, fig>>

\* ------------------------------------------------------------------- readers
\* What the reader finds in the dict it holds for job j: the registry's
\* record while that dict is still the registry's, its last content after.
ReaderView(j) ==
    IF j \in DOMAIN reader.frozen THEN reader.frozen[j] ELSE active_jobs[j]

\* lines 60-63 (called at 313, 329, 357): get_job_status returns the dict
\* stored in active_jobs itself, or a new empty dict for a missing id.
ReaderGet(j) ==
    /\ reader.state = "idle"
    /\ reader' = [state |-> "holding",
                  seen |-> [i \in {j} \cap DOMAIN active_jobs |-> active_jobs[i]],
                  frozen |-> NoReader.frozen]
    /\ UNCHANGED <<active_jobs, active_processes, pc, rlocal, outfile, signalled,
                   cpc, cjob, csaw, clookup, ccode, now, fig>>

\* lines 388-389: {job_id: job for job_id, job in active_jobs.items()} is a new
\* mapping whose values are the dicts stored in active_jobs.
ReaderList ==
    /\ reader.state = "idle"
    /\ reader' = [state |-> "holding", seen |-> active_jobs, frozen |-> NoReader.frozen]
    /\ UNCHANGED <<active_jobs, active_processes, pc, rlocal, outfile, signalled,
                   cpc, cjob, csaw, clookup, ccode, now, fig>>

Reader ==
    \/ \E j \in JobIds : ReaderGet(j)
    \/ ReaderList

\* --------------------------------------------------------------------- clock
Tick ==
    /\ \E d \in TickSteps :
          /\ now + d <= MaxTicks * (Retention + 1)
          /\ now' = now + d
    /\ UNCHANGED <<active_jobs, active_processes, pc, rlocal, outfile, signalled,
                   cpc, cjob, csaw, clookup, ccode, reader, fig>>

Next ==
    \/ \E j \in JobIds : Submit(j)
    \/ \E j \in JobIds : Runner(j)
    \/ \E c \in Cancellers : Cancel(c)
    \/ \E j \in JobIds : StatusQuery(j)
    \/ Janitor
    \/ Tick

Spec == Init /\ [][Next]_vars

\* The runner threads are scheduled fairly and the encoder invocation ends
\* (communicate returns).
FairSpec == Spec /\ \A j \in JobIds : WF_vars(Runner(j))

\* The program with a reader thread that holds what it was given: the jobs
\* are submitted and run, records expire and are deleted, and one request
\* reads.  (A cancel request writes the record through update_job_status as
\* the runner does.)
ReadNext ==
    \/ \E j \in JobIds : Submit(j)
    \/ \E j \in JobIds : Runner(j)
    \/ Janitor
    \/ Tick
    \/ Reader

ReadSpec == Init /\ [][ReadNext]_vars

\* ------------------------------------------------ the compression figures
\* video_compressor.py line 133: original_size_mb / compressed_size_mb
\*                               if compressed_size_mb > 0 else 0
compress_video_ratio(o, c) == IF c > 0 THEN truediv(o, c) ELSE 0

\* The figures as functions of the two sizes: any two file sizes (MB), then
\* one computation of the figures, by the runner or by compress_video.
FigInit ==
    /\ active_jobs = [x \in {} |-> EmptyRecord]
    /\ active_processes = {}
    /\ pc = [j \in JobIds |-> "none"]
    /\ rlocal = [j \in JobIds |-> NoLocals]
    /\ outfile = [j \in JobIds |-> FALSE]
    /\ signalled = [j \in JobIds |-> FALSE]
    /\ cpc = [c \in Cancellers |-> "idle"]
    /\ cjob = [c \in Cancellers |-> "none"]
    /\ csaw = [c \in Cancellers |-> "none"]
    /\ clookup = [c \in Cancellers |-> "none"]
    /\ ccode = [c \in Cancellers |-> 0]
    /\ now = 0
    /\ reader = NoReader
    /\ \E o \in 0..MaxSize, c \in 0..MaxSize :
          fig = [NoFig EXCEPT !.state = "sizes", !.original_size = o, !.compressed_size = c]

\* api_server.py lines 198-200
FigRunner ==
    /\ fig.state = "sizes"
    /\ fig' = [fig EXCEPT !.state = "runner",
                          !.ratio = compression_ratio(fig.original_size, fig.compressed_size),
                          !.percent = compression_percent(fig.original_size, fig.compressed_size)]
    /\ UNCHANGED <<active_jobs, active_processes, pc, rlocal, outfile, signalled,
                   cpc, cjob, csaw, clookup, ccode, now, reader>>

\* video_compressor.py lines 132-133
FigCompressVideo ==
    /\ fig.state = "sizes"
    /\ fig' = [fig EXCEPT !.state = "compress_video",
                          !.ratio = compress_video_ratio(fig.original_size, fig.compressed_size)]
    /\ UNCHANGED <<active_jobs, active_processes, pc, rlocal, outfile, signalled,
                   cpc, cjob, csaw, clookup, ccode, now, reader>>

FigNext ==
    \/ FigRunner
    \/ FigCompressVideo

FigSpec == FigInit /\ [][FigNext]_vars

\* ------------------------------------------------------------------ notions
HasRecord(j) == j \in DOMAIN active_jobs
StatusOf(j) == IF HasRecord(j) THEN active_jobs[j].status ELSE "none"
RunnerFinished(j) == pc[j] = "done"
\* Cancel request c named job j and was answered with success.
CancelSucceeded(c, j) == cpc[c] = "done" /\ ccode[c] = 200 /\ cjob[c] = j

\* ----------------------------------------------------------------------- C1
\* C1: if a cancel request that read status 'processing' answered success,
\* then once the job's runner has finished the job's status is 'cancelled'.
C1_CancelWinsOverRunner ==
    \A c \in Cancellers, j \in JobIds :
        (CancelSucceeded(c, j) /\ csaw[c] = "processing" /\ RunnerFinished(j) /\ HasRecord(j))
            => StatusOf(j) = "cancelled"

\* ----------------------------------------------------------------------- C2
\* C2: a record whose status is 'completed', 'failed' or 'cancelled' keeps
\* that status in every later update (as long as the record exists).
C2_TerminalIsFinal ==
    [][\A j \in JobIds :
          (HasRecord(j) /\ StatusOf(j) \in Terminal /\ j \in DOMAIN active_jobs')
              => active_jobs'[j].status = StatusOf(j)]_vars

\* ----------------------------------------------------------------------- C3
\* C3: if a cancel request answered success and found no process handle
\* because the runner had not registered one yet, then once the runner has
\* finished the job's status is 'cancelled'.
C3_EarlyCancelHonoured ==
    \A c \in Cancellers, j \in JobIds :
        (CancelSucceeded(c, j) /\ clookup[c] = "no_handle_yet" /\ RunnerFinished(j) /\ HasRecord(j))
            => StatusOf(j) = "cancelled"

\* ----------------------------------------------------------------------- C4
\* C4: with fair runner threads and an encoder invocation that ends, a job
\* whose status is 'queued' or 'processing' (as it is from submission on)
\* eventually has status 'completed', 'failed' or 'cancelled'; so no job
\* stays 'queued' or 'processing' forever.
C4_ReachesTerminal ==
    \A j \in JobIds : (StatusOf(j) \in NonTerminal) ~> (StatusOf(j) \in Terminal)

C4_Witness ==
    /\ \A j \in JobIds : RunnerFinished(j) /\ HasRecord(j)
    /\ StatusOf("j1") = "completed"
    /\ StatusOf("j2") = "failed"
    /\ \E c \in Cancellers : CancelSucceeded(c, "j2")

C6_UnknownIdNotFound ==
    /\ [](\A j \in JobIds : ~HasRecord(j) => status_code(active_jobs, j) = 404)
    /\ [][\A j \in JobIds :
             ~HasRecord(j) =>
                /\ StatusQuery(j) => UNCHANGED <<active_jobs, active_processes>>
                /\ \A c \in Cancellers :
                      CancelGet(c, j) => /\ ccode'[c] = 404
                                         /\ cpc'[c] = "done"
                                         /\ active_jobs' = active_jobs
                                         /\ active_processes' = active_processes
                                         /\ signalled' = signalled]_vars

\* A cancel of an unknown id was answered 404 while another job was running
\* with a registered handle.
C6_Witness ==
    \E c \in Cancellers :
        /\ cpc[c] = "done" /\ ccode[c] = 404
        /\ ~HasRecord(cjob[c])
        /\ \E k \in JobIds \ {cjob[c]} : HasRecord(k) /\ k \in active_processes

\* ----------------------------------------------------------------------- C7
\* C7: the step in which a cancel request answers success leaves the job's
\* record with status 'cancelled' and the cancel message, and a request that
\* went on to cancel_process always answers success, whatever cancel_process
\* did (signalled, failed to signal, found no handle).
C7_SuccessMeansCancelled ==
    /\ [](\A c \in Cancellers : (cpc[c] = "done" /\ clookup[c] # "none") => ccode[c] = 200)
    /\ [][\A c \in Cancellers :
             (ccode[c] # 200 /\ ccode'[c] = 200)
                 => /\ cjob[c] \in DOMAIN active_jobs'
                    /\ active_jobs'[cjob[c]].status = "cancelled"
                    /\ active_jobs'[cjob[c]].message = CancelMsg]_vars

\* A cancel answered success although signalling the process had failed, and
\* the record reads 'cancelled'.
C7_Witness ==
    \E c \in Cancellers :
        /\ cpc[c] = "done" /\ ccode[c] = 200 /\ clookup[c] = "signal_failed"
        /\ StatusOf(cjob[c]) = "cancelled"
        /\ active_jobs[cjob[c]].message = CancelMsg

\* ----------------------------------------------------------------------- C8
\* C8: a record carries result metadata exactly when its status is
\* 'completed'.
C8_ResultIffCompleted ==
    \A j \in DOMAIN active_jobs :
        active_jobs[j].result.has_result <=> active_jobs[j].status = "completed"

\* ----------------------------------------------------------------------- C9
\* C9: when a job's runner has finished and the job's status is 'cancelled',
\* the job's output file does not exist.
C9_CancelledLeavesNoOutput ==
    \A j \in JobIds :
        (RunnerFinished(j) /\ StatusOf(j) = "cancelled") => ~outfile[j]

\* ---------------------------------------------------------------------- C10
\* C10: the process registry holds an entry for a job only while the job's
\* runner is between register_process and unregister_process, and holds none
\* once the runner has finished, whichever way it finished.
C10_NoDanglingHandle ==
    \A j \in JobIds :
        /\ j \in active_processes => pc[j] \in {"communicate", "unregister", "exc", "exc_unreg"}
        /\ RunnerFinished(j) => j \notin active_processes

\* A runner that raised after registering its handle (the encoder had been
\* signalled) has finished with 'failed', and its entry is gone.
C10_Witness ==
    \E j \in JobIds :
        /\ RunnerFinished(j) /\ signalled[j]
        /\ StatusOf(j) = "failed" /\ active_jobs[j].message = ExcMsg
        /\ j \notin active_processes

\* ---------------------------------------------------------------------- C11
\* C11: clean_old_jobs removes every record whose status is 'completed',
\* 'failed' or 'cancelled' and whose updated_at is more than 3600 seconds old,
\* and leaves every other record as it was (kept and not modified), and adds
\* none; and no step at all removes a record whose status is 'queued' or
\* 'processing', whatever its age.
C11_JanitorFrame ==
    [][/\ Janitor =>
            /\ DOMAIN active_jobs' \subseteq DOMAIN active_jobs
            /\ \A j \in DOMAIN active_jobs :
                  IF /\ active_jobs[j].status \in {"completed", "failed", "cancelled"}
                     /\ now - active_jobs[j].updated_at > 3600
                    THEN j \notin DOMAIN active_jobs'
                    ELSE j \in DOMAIN active_jobs' /\ active_jobs'[j] = active_jobs[j]
       /\ \A j \in DOMAIN active_jobs :
             active_jobs[j].status \in {"queued", "processing"} => j \in DOMAIN active_jobs'
      ]_vars

\* The janitor has removed the record of a finished job while the record of
\* another job, not terminal and older than the retention window, is kept.
C11_Witness ==
    \E j \in JobIds, k \in JobIds :
        /\ RunnerFinished(j) /\ ~HasRecord(j)
        /\ HasRecord(k) /\ StatusOf(k) \in NonTerminal
        /\ now - active_jobs[k].updated_at > Retention

\* ---------------------------------------------------------------------- C12
\* C12: when get_video_info raises (probing the input or the output), the
\* update the runner makes in handling it does not set the job's status to
\* 'failed'.
C12_ProbeFailureNotFailed ==
    [][\A j \in JobIds :
          (RunnerExc(j) /\ rlocal[j].raised = "get_video_info")
              => active_jobs'[j].status # "failed"]_vars

\* ---------------------------------------------------------------------- C13
\* C13: when the runner re-reads a status other than 'cancelled' and the
\* encoder's return code is not zero, it goes on to report the failure, and
\* its step from there sets the status 'failed' with the message that carries
\* the encoder's stderr, leaves the result metadata of the record as it was
\* (none is written), and ends the runner.
C13_EncoderFailureReported ==
    [][\A j \in JobIds :
          /\ (RunnerReread(j) /\ rlocal[j].returncode # 0 /\ StatusOf(j) # "cancelled")
                 => pc'[j] = "fail"
          /\ (pc[j] = "fail" /\ pc'[j] # "fail")
                 => /\ j \in DOMAIN active_jobs'
                    /\ active_jobs'[j].status = "failed"
                    /\ active_jobs'[j].message = FFmpegMsg
                    /\ active_jobs'[j].result = get_job_status(active_jobs, j).result
                    /\ pc'[j] = "done"]_vars

\* A runner whose encoder failed has finished: 'failed', the encoder's
\* message, no result metadata.
C13_Witness ==
    \E j \in JobIds :
        /\ RunnerFinished(j) /\ StatusOf(j) = "failed"
        /\ active_jobs[j].message = FFmpegMsg
        /\ ~active_jobs[j].result.has_result

\* ---------------------------------------------------------------------- C14
\* C14: an update on an id without a record creates none: a record comes
\* into being only by a submission, so a record the janitor removed does not
\* reappear and no id has a record that no submission created.
C14_UpdateMissingNotFound ==
    [][\A j \in JobIds :
          (~HasRecord(j) /\ j \in DOMAIN active_jobs') => Submit(j)]_vars

\* ---------------------------------------------------------------------- C15
\* C15: what a reader got from get_job_status or from the list_jobs listing
\* is a snapshot: each record it holds reads as it did when the reader got
\* it, whatever the runners wrote since.
C15_ReadersHoldSnapshots ==
    \A j \in DOMAIN reader.seen : ReaderView(j) = reader.seen[j]

\* ---------------------------------------------------------------------- C16
\* The least progress the runner of a job has written so far, by its position
\* p and its locals l (NoProgress before its first update).
ProgressWritten(p, l) ==
    IF p \in {"none", "start"} THEN NoProgress
    ELSE IF p \in {"popen", "register", "communicate", "unregister", "reread", "fail", "complete"}
      THEN 10
    ELSE IF p \in {"exc", "exc_unreg"} /\ l.raised \in {"Popen", "communicate"} THEN 10
    ELSE 0

\* C16: the progress of a job's record is unset or an integer in 0..100; once
\* the runner has set it, the record of the job carries at least the progress
\* the runner has written; no step lowers it; the runner's 'completed' update
\* sets it to 100 and nothing else does.
C16_ProgressMonotone ==
    [][\A j \in JobIds :
          /\ j \in DOMAIN active_jobs' =>
                /\ active_jobs'[j].progress \in {NoProgress} \cup (0..100)
                /\ active_jobs'[j].progress >= ProgressWritten(pc'[j], rlocal'[j])
          /\ (HasRecord(j) /\ j \in DOMAIN active_jobs')
                => active_jobs'[j].progress >= active_jobs[j].progress
          /\ RunnerComplete(j) => (j \in DOMAIN active_jobs' /\ active_jobs'[j].progress = 100)
          /\ (/\ j \in DOMAIN active_jobs'
              /\ active_jobs'[j].progress = 100
              /\ get_job_status(active_jobs, j).progress # 100) => RunnerComplete(j)]_vars

\* ---------------------------------------------------------------------- C17
\* Everything of the jobs other than j is as it was: record, process handle,
\* signal received, output file, runner position.
OthersUnchanged(j) ==
    \A k \in JobIds \ {j} :
        /\ (k \in DOMAIN active_jobs') <=> HasRecord(k)
        /\ HasRecord(k) => active_jobs'[k] = active_jobs[k]
        /\ (k \in active_processes') <=> (k \in active_processes)
        /\ signalled'[k] = signalled[k]
        /\ outfile'[k] = outfile[k]
        /\ pc'[k] = pc[k]

\* C17: every step of the runner of job j (its exception handler included)
\* and every step of a cancel request for job j leaves the record, the
\* process handle and the encoder of every other job alone; a signal is sent
\* only to j's encoder.
\* (A step of j's runner is a step that moves its position pc[j]; a step of
\* a cancel request for j is one that moves the position of a request naming j.)
C17_JobsIsolated ==
    [][\A j \in JobIds :
          /\ (pc[j] # "none" /\ pc'[j] # pc[j]) => OthersUnchanged(j)
          /\ \A c \in Cancellers :
                (cpc'[c] # cpc[c] /\ cjob'[c] = j) => OthersUnchanged(j)]_vars

\* Job j1 was cancelled with its encoder signalled and its runner has
\* finished, while job j2 is encoding with its handle registered, unsignalled
\* and 'processing'.
C17_Witness ==
    /\ RunnerFinished("j1") /\ signalled["j1"] /\ StatusOf("j1") = "cancelled"
    /\ \E c \in Cancellers : CancelSucceeded(c, "j1")
    /\ pc["j2"] = "communicate" /\ "j2" \in active_processes
    /\ ~signalled["j2"] /\ StatusOf("j2") = "processing"

\* ---------------------------------------------------------------------- C18
\* C18: a submission creates the record with status 'queued' in the step
\* that starts the runner thread, before the runner has run; there is no
\* record for an id before its submission, so the first status stored is
\* 'queued'; and a record is removed only when its status is terminal, so a
\* status query finds the job as long as it is 'queued' or 'processing'.
C18_SubmitCreatesQueued ==
    [][\A j \in JobIds :
          /\ Submit(j) => /\ j \in DOMAIN active_jobs'
                          /\ active_jobs'[j].status = "queued"
                          /\ status_code(active_jobs', j) = 200
                          /\ pc'[j] = "start"
          /\ pc'[j] = "none" => j \notin DOMAIN active_jobs'
          /\ (pc[j] = "none" /\ j \in DOMAIN active_jobs')
                => active_jobs'[j].status = "queued"
          /\ (HasRecord(j) /\ StatusOf(j) \in NonTerminal)
                => status_code(active_jobs', j) = 200]_vars

\* A job was submitted and is 'queued', its runner started and not yet run,
\* and the status query finds it.
C18_Witness ==
    \E j \in JobIds :
        /\ pc[j] = "start" /\ StatusOf(j) = "queued"
        /\ status_code(active_jobs, j) = 200

\* ---------------------------------------------------------------------- C19
\* C19: computing the figures never divides by zero: in the runner a
\* compressed size of 0 gives ratio 0 and an original size of 0 gives percent
\* 0; in compress_video a compressed size of 0 gives ratio 0.
C19_NoDivisionByZero ==
    /\ fig.state \in {"runner", "compress_video"} =>
          /\ fig.ratio # ZeroDivisionError
          /\ fig.percent # ZeroDivisionError
          /\ fig.compressed_size = 0 => fig.ratio = 0
    /\ fig.state = "runner" =>
          (fig.original_size = 0 => fig.percent = 0)

\* The runner has computed the figures of an empty input and an empty output.
C19_Witness ==
    /\ fig.state = "runner"
    /\ fig.original_size = 0 /\ fig.compressed_size = 0
    /\ fig.ratio = 0 /\ fig.percent = 0

\* ---------------------------------------------------------------------- C20
\* C20: when the encoder has exited with 0 and the re-read did not see
\* 'cancelled' (the runner is at its completion), the runner's step from
\* there is one update that writes 'completed', progress 100 and the
\* figures: for positive sizes ratio = original / compressed and percent =
\* (original - compressed) / original * 100 (in whole units); sizes 100 and
\* 10 give ratio 10 and percent 90.
C20_SuccessCompletes ==
    [][\A j \in JobIds :
          (pc[j] = "complete" /\ pc'[j] # "complete") =>
              /\ j \in DOMAIN active_jobs'
              /\ active_jobs'[j].status = "completed"
              /\ active_jobs'[j].progress = 100
              /\ active_jobs'[j].result.has_result
              /\ LET r == active_jobs'[j].result
                     o == r.original_size
                     c == r.compressed_size
                 IN  /\ o = rlocal[j].original_size
                     /\ (o > 0 /\ c > 0) =>
                            /\ r.compression_ratio = o \div c
                            /\ r.compression_percent = ((o - c) * 100) \div o
                     /\ (o = 100 /\ c = 10) =>
                            /\ r.compression_ratio = 10
                            /\ r.compression_percent = 90]_vars

\* ---------------------------------------------------------------------- C21
\* C21: when the runner's re-read after the encoder has returned sees
\* 'cancelled', that step ends the runner with the job registry as it was
\* and the status 'cancelled', whatever the return code; a runner that has
\* ended makes no further step, so it writes neither 'failed' nor
\* 'completed'.
C21_CancelledRereadEndsRunner ==
    [][\A j \in JobIds :
          /\ (pc[j] = "reread" /\ pc'[j] # "reread" /\ StatusOf(j) = "cancelled")
                => /\ pc'[j] = "done"
                   /\ active_jobs' = active_jobs
                   /\ active_jobs'[j].status = "cancelled"
          /\ pc[j] = "done" => pc'[j] = "done"]_vars

\* A job was cancelled with its encoder signalled; its runner has finished,
\* the record reads 'cancelled' without result metadata and the output file
\* is gone.
C21_Witness ==
    \E j \in JobIds, c \in Cancellers :
        /\ CancelSucceeded(c, j) /\ clookup[c] = "signalled"
        /\ RunnerFinished(j) /\ StatusOf(j) = "cancelled"
        /\ active_jobs[j].message = CancelMsg
        /\ ~active_jobs[j].result.has_result
        /\ ~outfile[j]

\* ---------------------------------------------------------------------- C22
\* C22: when a cancel request that goes on to answer success calls
\* cancel_process while the job's encoder has been spawned and has not been
\* waited for (the runner is between Popen and the return of communicate),
\* it finds the handle and issues a termination request.
C22_SpawnedEncoderSignalled ==
    [][\A c \in Cancellers :
          (cpc[c] = "kill" /\ cpc'[c] = "update" /\ pc[cjob[c]] \in {"register", "communicate"})
              => clookup'[c] \in {"signalled", "signal_failed"}]_vars
====
